---- MODULE Spec2Model ----
(***************************************************************************)
(* Model of src/cli.py: the ClauseCompass command-line client.  The state  *)
(* is the APP_STATE dictionary and the position of main()'s loop; one      *)
(* action per command handler, each applied to one line read at the        *)
(* prompt.  Lines, arguments, paths and messages are strings, and the      *)
(* string functions the code calls (strip, lower, split, shlex.split,      *)
(* os.path.abspath, os.path.basename) are computed character by character. *)
(***************************************************************************)
EXTENDS Integers, Sequences, FiniteSets, TLC

VARIABLES
    APP_STATE,    \* the session dictionary (cli.py 17-23)
    pc,           \* main(): "awaiting" | "terminated" (Exiting... printed) | "crashed" (unhandled exception)
    user_input,   \* the stripped line read by the last iteration
    handler,      \* the handler the last iteration called
    arg,          \* the argument string it was called with
    console_out,  \* what the last iteration printed
    http,         \* the HTTP requests the last iteration issued
    handles,      \* per file handle opened by the last iteration: how often it was closed
    fs,           \* of the files the last os.path or open() calls named, those that existed
    response,     \* what the backend answered to the last iteration's request
    prev          \* APP_STATE as it was when the last line was read

vars == <<APP_STATE, pc, user_input, handler, arg, console_out, http, handles, fs, response, prev>>

\* Number of local files in the universe (named a, b, c, ... in directory /w).
NumFiles == 2

None == "None"

\* Python truthiness of a string-or-None value: `not v`.
Falsy(v) == v = None \/ v = ""

-----------------------------------------------------------------------------
(* Strings *)

Ch(s, i) == SubSeq(s, i, i)

UpperChars == "ABCDEFGHIJKLMNOPQRSTUVWXYZ"
LowerChars == "abcdefghijklmnopqrstuvwxyz"

\* s.find(c) for a single character, counted from 1: 0 if c is not in s.
RECURSIVE FindFrom(_, _, _)
FindFrom(s, c, i) ==
    IF i > Len(s) THEN 0 ELSE IF Ch(s, i) = c THEN i ELSE FindFrom(s, c, i + 1)

Find(s, c) == FindFrom(s, c, 1)

\* s.rfind(c), counted from 1: 0 if c is not in s.
RECURSIVE RFindFrom(_, _, _)
RFindFrom(s, c, i) ==
    IF i = 0 THEN 0 ELSE IF Ch(s, i) = c THEN i ELSE RFindFrom(s, c, i - 1)

RFind(s, c) == RFindFrom(s, c, Len(s))

LowerCh(c) ==
    LET i == Find(UpperChars, c)
    IN  IF i = 0 THEN c ELSE Ch(LowerChars, i)

RECURSIVE lower(_)
lower(s) == IF s = "" THEN "" ELSE LowerCh(Ch(s, 1)) \o lower(SubSeq(s, 2, Len(s)))

IsSpace(c) == c = " " \/ c = "\t"

RECURSIVE lstrip(_)
lstrip(s) == IF s # "" /\ IsSpace(Ch(s, 1)) THEN lstrip(SubSeq(s, 2, Len(s))) ELSE s

RECURSIVE rstrip(_)
rstrip(s) == IF s # "" /\ IsSpace(Ch(s, Len(s))) THEN rstrip(SubSeq(s, 1, Len(s) - 1)) ELSE s

strip(s) == rstrip(lstrip(s))

\* user_input.split(' ', 1)
split1(s) ==
    LET i == Find(s, " ")
    IN  IF i = 0 THEN <<s>> ELSE <<SubSeq(s, 1, i - 1), SubSeq(s, i + 1, Len(s))>>

-----------------------------------------------------------------------------
(* shlex.split(s): POSIX rules over an alphabet without backslashes.        *)
(* st is shlex's state: "ws" between tokens, "a" inside a word, or the      *)
(* quote character that is open.  An open quote at the end of the input    *)
(* raises ValueError("No closing quotation"): ok = FALSE.                   *)

IsQuote(c) == c = "\"" \/ c = "'"

RECURSIVE ShlexScan(_, _, _, _, _)
ShlexScan(s, i, st, cur, out) ==
    IF i > Len(s)
    THEN IF IsQuote(st) THEN [ok |-> FALSE, tokens |-> <<>>]
         ELSE IF st = "a" THEN [ok |-> TRUE, tokens |-> Append(out, cur)]
         ELSE [ok |-> TRUE, tokens |-> out]
    ELSE LET c == Ch(s, i)
         IN  IF IsQuote(st)
             THEN IF c = st THEN ShlexScan(s, i + 1, "a", cur, out)
                  ELSE ShlexScan(s, i + 1, st, cur \o c, out)
             ELSE IF IsSpace(c)
                  THEN IF st = "a" THEN ShlexScan(s, i + 1, "ws", "", Append(out, cur))
                       ELSE ShlexScan(s, i + 1, "ws", "", out)
                  ELSE IF IsQuote(c) THEN ShlexScan(s, i + 1, c, cur, out)
                  ELSE ShlexScan(s, i + 1, "a", cur \o c, out)

shlex_split(s) == ShlexScan(s, 1, "ws", "", <<>>)

-----------------------------------------------------------------------------
(* os.path *)

\* os.getcwd(): the directory the client was started in.
CWD == "/w"

RECURSIVE SplitBy(_, _)
SplitBy(s, c) ==
    LET i == Find(s, c)
    IN  IF i = 0 THEN <<s>>
        ELSE <<SubSeq(s, 1, i - 1)>> \o SplitBy(SubSeq(s, i + 1, Len(s)), c)

RECURSIVE JoinBy(_, _)
JoinBy(comps, c) ==
    IF comps = <<>> THEN ""
    ELSE IF Len(comps) = 1 THEN comps[1]
    ELSE comps[1] \o c \o JoinBy(Tail(comps), c)

\* posixpath.normpath's loop over the components of an absolute path.
RECURSIVE NormComps(_, _)
NormComps(comps, acc) ==
    IF comps = <<>> THEN acc
    ELSE LET c == Head(comps)
         IN  IF c = "" \/ c = "." THEN NormComps(Tail(comps), acc)
             ELSE IF c = ".."
                  THEN NormComps(Tail(comps),
                                 IF acc = <<>> THEN acc ELSE SubSeq(acc, 1, Len(acc) - 1))
                  ELSE NormComps(Tail(comps), Append(acc, c))

\* posixpath.normpath of an absolute path (two leading slashes are kept, POSIX).
normpath(p) ==
    LET slashes == IF Len(p) >= 2 /\ Ch(p, 2) = "/" /\ ~(Len(p) >= 3 /\ Ch(p, 3) = "/")
                   THEN "//" ELSE "/"
    IN  slashes \o JoinBy(NormComps(SplitBy(p, "/"), <<>>), "/")

\* os.path.abspath(path) = normpath(join(os.getcwd(), path))
abspath(path) ==
    IF path # "" /\ Ch(path, 1) = "/" THEN normpath(path)
    ELSE normpath(CWD \o "/" \o path)

\* os.path.basename(path)
basename(path) == SubSeq(path, RFind(path, "/") + 1, Len(path))

\* os.path.exists(path) and os.path.isfile(path), with F the regular files that exist.
is_existing_file(path, F) == path # "" /\ abspath(path) \in F

-----------------------------------------------------------------------------
(* Configuration (cli.py 12-14) *)

BASE_URL == "http://localhost:8000"
PERSISTENT_ENDPOINT == "/evaluate"
DYNAMIC_ENDPOINT == "/evaluate-with-docs"

-----------------------------------------------------------------------------
(* The collaborators: what the backend answers and what the user types.     *)

\* One HTTP request as the client issues it: bearer is the Authorization
\* token (None when the call carries no header), text the query or user
\* name, docs the source_files or the paths of the attached handles, names
\* the multipart file names.
Req(method, path, bearer, text, docs, names) ==
    [method |-> method, path |-> path, bearer |-> bearer, text |-> text,
     docs |-> docs, names |-> names]

\* What requests.get/post returns: got = FALSE is a transport failure
\* (requests.exceptions.RequestException raised, no response); otherwise a
\* status and a body.  json_raises is "none" when the body is a JSON object,
\* holding the fields named in keys; when the body is not JSON it names what
\* response.json() raises: requests.exceptions.JSONDecodeError, which is a
\* RequestException, from requests 2.27 on, and a plain ValueError before.
\* The repository pins no version, so both occur.
Resp(got, status, json_raises, keys, detail, access_token, documents) ==
    [got |-> got, status |-> status, json_raises |-> json_raises, keys |-> keys,
     detail |-> detail, access_token |-> access_token, documents |-> documents]

Tokens == {"tok1", "tok2"}

NoResponse == Resp(FALSE, 0, "none", {}, "", "", <<>>)

\* The value of `response` after an iteration that issued no request.
NoRequest == Resp(FALSE, -1, "none", {}, "", "", <<>>)

\* A 403 with a detail, a 500 whose body has none, and a 502 whose body is
\* not JSON (a proxy's error page).
ErrorResponses ==
    {Resp(TRUE, 403, "none", {"detail"}, "expired token", "", <<>>),
     Resp(TRUE, 500, "none", {}, "", "", <<>>),
     Resp(TRUE, 502, "RequestException", {}, "", "", <<>>),
     Resp(TRUE, 502, "ValueError", {}, "", "", <<>>)}

\* POST /login: 200 with {access_token}, or 200 with a body that lacks it.
LoginResponses ==
    {NoResponse} \cup ErrorResponses
    \cup {Resp(TRUE, 200, "none", {"access_token"}, "", t, <<>>) : t \in Tokens}
    \cup {Resp(TRUE, 200, "none", {}, "", "", <<>>)}

\* POST /register
RegisterResponses ==
    {NoResponse} \cup ErrorResponses \cup {Resp(TRUE, 200, "none", {}, "", "", <<>>)}

\* GET /documents: 200 with {documents}, or 200 with a body that lacks it.
ListResponses ==
    {NoResponse} \cup ErrorResponses
    \cup {Resp(TRUE, 200, "none", {"documents"}, "", "", <<"y.pdf", "x.pdf">>),
          Resp(TRUE, 200, "none", {}, "", "", <<>>)}

\* POST /evaluate and /evaluate-with-docs: 200 with arbitrary JSON.
QueryResponses ==
    {NoResponse} \cup ErrorResponses \cup {Resp(TRUE, 200, "none", {}, "", "", <<>>)}

\* response.json().get('detail', default)
json_get_detail(resp, default) == IF "detail" \in resp.keys THEN resp.detail ELSE default

\* What console.input returns inside a handler; EOF stands for the EOFError
\* or KeyboardInterrupt it raises when the user ends the input instead.
EOF == "<EOF>"
Emails == {"ann@x.org", "bob@x.org"}

\* The result of one handler call: the session afterwards, what was printed,
\* the requests issued, the file handles opened (with their close counts)
\* and the exception that left the handler ("none" when it returned).
\* looked says whether the handler consulted the file system.
Result(S, out, reqs, hs, exc) ==
    [state |-> S, out |-> out, http |-> reqs, handles |-> hs, exc |-> exc, looked |-> FALSE]

-----------------------------------------------------------------------------
(* Command handlers (cli.py 30-181).  S is APP_STATE at the call.           *)

handle_help(S) ==
    Result(S, <<"ClauseCompass Decision Engine CLI">>, <<>>, <<>>, "none")

\* Mutant: a switch to the mode the session is already in is treated as a
\* no-op and keeps the staged documents.
handle_mode_switch_same_mode_noop(S, args_str) ==
    LET new_mode == lower(strip(args_str))
    IN  IF new_mode \in {"persistent", "temporary"}
        THEN Result(IF new_mode = S.mode THEN S
                    ELSE [S EXCEPT !.mode = new_mode,
                                   !.persistent_docs_context = <<>>,
                                   !.temp_docs_to_upload = <<>>],
                    <<"Mode switched to: " \o new_mode>>, <<>>, <<>>, "none")
        ELSE Result(S, <<"Invalid mode. Use 'persistent' or 'temporary'.">>, <<>>, <<>>, "none")

\* Mutant: an unrecognized token falls back to the default mode.
handle_mode_switch_default_persistent(S, args_str) ==
    LET new_mode == lower(strip(args_str))
        chosen == IF new_mode \in {"persistent", "temporary"} THEN new_mode ELSE "persistent"
    IN  Result([S EXCEPT !.mode = chosen,
                         !.persistent_docs_context = <<>>,
                         !.temp_docs_to_upload = <<>>],
               IF chosen = new_mode THEN <<"Mode switched to: " \o new_mode>>
               ELSE <<"Invalid mode. Use 'persistent' or 'temporary'.">>,
               <<>>, <<>>, "none")

\* Mutant: the switch changes the mode and keeps both collections.
handle_mode_switch_keeps_collections(S, args_str) ==
    LET new_mode == lower(strip(args_str))
    IN  IF new_mode \in {"persistent", "temporary"}
        THEN Result([S EXCEPT !.mode = new_mode],
                    <<"Mode switched to: " \o new_mode>>, <<>>, <<>>, "none")
        ELSE Result(S, <<"Invalid mode. Use 'persistent' or 'temporary'.">>, <<>>, <<>>, "none")

handle_mode_switch(S, args_str) ==
    LET new_mode == lower(strip(args_str))
    IN  IF new_mode \in {"persistent", "temporary"}
        THEN Result([S EXCEPT !.mode = new_mode,
                              !.persistent_docs_context = <<>>,
                              !.temp_docs_to_upload = <<>>],
                    <<"Mode switched to: " \o new_mode>>, <<>>, <<>>, "none")
        ELSE Result(S, <<"Invalid mode. Use 'persistent' or 'temporary'.">>, <<>>, <<>>, "none")

\* Mutant: a successful login stores the token and forgets the e-mail.
handle_login_token_only(S, email, resp) ==
    IF email = EOF THEN Result(S, <<>>, <<>>, <<>>, "EOFError")
    ELSE LET reqs == <<Req("POST", "/login", None, email, <<>>, <<>>)>>
         IN  IF ~resp.got
             THEN Result(S, <<"Connection Error to API at " \o BASE_URL \o ".">>, reqs, <<>>, "none")
             ELSE IF resp.json_raises = "RequestException"
             THEN Result(S, <<"Connection Error to API at " \o BASE_URL \o ".">>, reqs, <<>>, "none")
             ELSE IF resp.json_raises = "ValueError" THEN Result(S, <<>>, reqs, <<>>, "ValueError")
             ELSE IF resp.status = 200
             THEN IF "access_token" \in resp.keys
                  THEN Result([S EXCEPT !.token = resp.access_token],
                              <<"Login successful.">>, reqs, <<>>, "none")
                  ELSE Result(S, <<>>, reqs, <<>>, "KeyError")
             ELSE Result(S, <<"Login failed: " \o json_get_detail(resp, "Invalid credentials")>>,
                         reqs, <<>>, "none")

\* Mutant: a login that fails logs the session out.
handle_login_clears_on_failure(S, email, resp) ==
    IF email = EOF THEN Result(S, <<>>, <<>>, <<>>, "EOFError")
    ELSE LET reqs == <<Req("POST", "/login", None, email, <<>>, <<>>)>>
             out == [S EXCEPT !.token = None, !.user_email = None]
         IN  IF ~resp.got
             THEN Result(out, <<"Connection Error to API at " \o BASE_URL \o ".">>, reqs, <<>>, "none")
             ELSE IF resp.json_raises = "RequestException"
             THEN Result(out, <<"Connection Error to API at " \o BASE_URL \o ".">>, reqs, <<>>, "none")
             ELSE IF resp.json_raises = "ValueError" THEN Result(S, <<>>, reqs, <<>>, "ValueError")
             ELSE IF resp.status = 200
             THEN IF "access_token" \in resp.keys
                  THEN Result([S EXCEPT !.token = resp.access_token, !.user_email = email],
                              <<"Login successful.">>, reqs, <<>>, "none")
                  ELSE Result(S, <<>>, reqs, <<>>, "KeyError")
             ELSE Result(out, <<"Login failed: " \o json_get_detail(resp, "Invalid credentials")>>,
                         reqs, <<>>, "none")

handle_login(S, email, resp) ==
    IF email = EOF THEN Result(S, <<>>, <<>>, <<>>, "EOFError")
    ELSE LET reqs == <<Req("POST", "/login", None, email, <<>>, <<>>)>>
         IN  IF ~resp.got
             THEN Result(S, <<"Connection Error to API at " \o BASE_URL \o ".">>, reqs, <<>>, "none")
             ELSE IF resp.json_raises = "RequestException"
             THEN Result(S, <<"Connection Error to API at " \o BASE_URL \o ".">>, reqs, <<>>, "none")
             ELSE IF resp.json_raises = "ValueError" THEN Result(S, <<>>, reqs, <<>>, "ValueError")
             ELSE IF resp.status = 200
             THEN IF "access_token" \in resp.keys
                  THEN Result([S EXCEPT !.token = resp.access_token, !.user_email = email],
                              <<"Login successful.">>, reqs, <<>>, "none")
                  ELSE Result(S, <<>>, reqs, <<>>, "KeyError")
             ELSE Result(S, <<"Login failed: " \o json_get_detail(resp, "Invalid credentials")>>,
                         reqs, <<>>, "none")

handle_register(S, email, resp) ==
    IF email = EOF THEN Result(S, <<>>, <<>>, <<>>, "EOFError")
    ELSE LET reqs == <<Req("POST", "/register", None, email, <<>>, <<>>)>>
         IN  IF ~resp.got THEN Result(S, <<>>, reqs, <<>>, "ConnectionError")
             ELSE IF resp.status = 200
             THEN Result(S, <<"Registration successful. Please login.">>, reqs, <<>>, "none")
             ELSE IF resp.json_raises # "none" THEN Result(S, <<>>, reqs, <<>>, "JSONDecodeError")
             ELSE Result(S, <<"Registration failed: " \o json_get_detail(resp, "Unknown error")>>,
                         reqs, <<>>, "none")

\* Mutant: logout forgets to clear the staged documents.
handle_logout_keeps_staged(S) ==
    Result([S EXCEPT !.token = None, !.user_email = None, !.persistent_docs_context = <<>>],
           <<"You have been logged out.">>, <<>>, <<>>, "none")

handle_logout(S) ==
    Result([S EXCEPT !.token = None, !.user_email = None,
                     !.persistent_docs_context = <<>>, !.temp_docs_to_upload = <<>>],
           <<"You have been logged out.">>, <<>>, <<>>, "none")

\* The characters of the model's strings in code-point order, for sorted().
CodePoints == " \"'*-./0123456789<>@ABCDEFGHIJKLMNOPQRSTUVWXYZ_abcdefghijklmnopqrstuvwxyz"

RECURSIVE StrLess(_, _)
StrLess(a, b) ==
    IF b = "" THEN FALSE
    ELSE IF a = "" THEN TRUE
    ELSE IF Ch(a, 1) = Ch(b, 1) THEN StrLess(SubSeq(a, 2, Len(a)), SubSeq(b, 2, Len(b)))
    ELSE Find(CodePoints, Ch(a, 1)) < Find(CodePoints, Ch(b, 1))

RECURSIVE Insert(_, _)
Insert(x, sortedSeq) ==
    IF sortedSeq = <<>> THEN <<x>>
    ELSE IF StrLess(x, Head(sortedSeq)) THEN <<x>> \o sortedSeq
    ELSE <<Head(sortedSeq)>> \o Insert(x, Tail(sortedSeq))

RECURSIVE sorted(_)
sorted(docs) == IF docs = <<>> THEN <<>> ELSE Insert(Head(docs), sorted(Tail(docs)))

\* repr() of a string and str() of a list of strings, as the f-string prints them.
repr(t) ==
    IF Find(t, "'") # 0 /\ Find(t, "\"") = 0 THEN "\"" \o t \o "\"" ELSE "'" \o t \o "'"

str_list(tokens) ==
    "[" \o JoinBy([i \in 1..Len(tokens) |-> repr(tokens[i])], ", ") \o "]"

handle_list_docs(S, resp) ==
    IF S.mode # "persistent"
    THEN Result(S, <<"This command is only available in 'persistent' mode.">>, <<>>, <<>>, "none")
    ELSE IF Falsy(S.token)
    THEN Result(S, <<"You must be logged in first.">>, <<>>, <<>>, "none")
    ELSE LET reqs == <<Req("GET", "/documents", S.token, "", <<>>, <<>>)>>
         IN  IF ~resp.got THEN Result(S, <<>>, reqs, <<>>, "ConnectionError")
             ELSE IF resp.json_raises # "none" THEN Result(S, <<>>, reqs, <<>>, "JSONDecodeError")
             ELSE IF resp.status = 200
             THEN LET docs == IF "documents" \in resp.keys THEN resp.documents ELSE <<>>
                  IN  IF docs = <<>>
                      THEN Result(S, <<"No documents found in persistent KB.">>, reqs, <<>>, "none")
                      ELSE Result(S, <<"Available Documents in Persistent KB">> \o sorted(docs),
                                  reqs, <<>>, "none")
             ELSE Result(S, <<"Error fetching documents: " \o json_get_detail(resp, "Unknown error")>>,
                         reqs, <<>>, "none")

\* Mutant: set_docs without its mode check.
handle_set_docs_any_mode(S, args_str) ==
    IF args_str = "" \/ strip(args_str) = "*"
    THEN Result([S EXCEPT !.persistent_docs_context = <<>>],
                <<"Persistent document context cleared.">>, <<>>, <<>>, "none")
    ELSE LET sp == shlex_split(args_str)
         IN  IF ~sp.ok THEN Result(S, <<>>, <<>>, <<>>, "ValueError")
             ELSE Result([S EXCEPT !.persistent_docs_context = sp.tokens],
                         <<"Persistent document context set to: " \o str_list(sp.tokens)>>,
                         <<>>, <<>>, "none")

\* Mutant: set_docs adds the words to the context instead of replacing it.
handle_set_docs_appends(S, args_str) ==
    IF S.mode # "persistent"
    THEN Result(S, <<"This command is only available in 'persistent' mode.">>, <<>>, <<>>, "none")
    ELSE IF args_str = "" \/ strip(args_str) = "*"
    THEN Result([S EXCEPT !.persistent_docs_context = <<>>],
                <<"Persistent document context cleared.">>, <<>>, <<>>, "none")
    ELSE LET sp == shlex_split(args_str)
         IN  IF ~sp.ok THEN Result(S, <<>>, <<>>, <<>>, "ValueError")
             ELSE Result([S EXCEPT !.persistent_docs_context = @ \o sp.tokens],
                         <<"Persistent document context set to: "
                             \o str_list(S.persistent_docs_context \o sp.tokens)>>,
                         <<>>, <<>>, "none")

handle_set_docs(S, args_str) ==
    IF S.mode # "persistent"
    THEN Result(S, <<"This command is only available in 'persistent' mode.">>, <<>>, <<>>, "none")
    ELSE IF args_str = "" \/ strip(args_str) = "*"
    THEN Result([S EXCEPT !.persistent_docs_context = <<>>],
                <<"Persistent document context cleared.">>, <<>>, <<>>, "none")
    ELSE LET sp == shlex_split(args_str)
         IN  IF ~sp.ok THEN Result(S, <<>>, <<>>, <<>>, "ValueError")
             ELSE Result([S EXCEPT !.persistent_docs_context = sp.tokens],
                         <<"Persistent document context set to: " \o str_list(sp.tokens)>>,
                         <<>>, <<>>, "none")

InSeq(x, seq) == \E i \in 1..Len(seq) : seq[i] = x

\* Mutant: the duplicate test looks for the path as typed instead of the
\* absolute path.
RECURSIVE add_doc_loop_raw_path(_, _, _)
add_doc_loop_raw_path(files_to_add, r, F) ==
    IF files_to_add = <<>> THEN r
    ELSE LET file_path == Head(files_to_add)
             abs_path == abspath(file_path)
         IN  add_doc_loop_raw_path(Tail(files_to_add),
                 IF is_existing_file(file_path, F)
                 THEN IF ~InSeq(file_path, r.staged)
                      THEN [staged |-> Append(r.staged, abs_path),
                            out |-> Append(r.out, "Staged: " \o abs_path)]
                      ELSE [staged |-> r.staged,
                            out |-> Append(r.out, "Skipped (already staged): " \o abs_path)]
                 ELSE [staged |-> r.staged,
                       out |-> Append(r.out, "Error: File not found: " \o file_path)],
                 F)

\* Mutant: the loop gives up at the first path that is not an existing file.
RECURSIVE add_doc_loop_stops_at_bad_path(_, _, _)
add_doc_loop_stops_at_bad_path(files_to_add, r, F) ==
    IF files_to_add = <<>> THEN r
    ELSE LET file_path == Head(files_to_add)
             abs_path == abspath(file_path)
         IN  IF is_existing_file(file_path, F)
             THEN add_doc_loop_stops_at_bad_path(Tail(files_to_add),
                      IF ~InSeq(abs_path, r.staged)
                      THEN [staged |-> Append(r.staged, abs_path),
                            out |-> Append(r.out, "Staged: " \o abs_path)]
                      ELSE [staged |-> r.staged,
                            out |-> Append(r.out, "Skipped (already staged): " \o abs_path)],
                      F)
             ELSE [staged |-> r.staged,
                   out |-> Append(r.out, "Error: File not found: " \o file_path)]

\* The for loop of handle_add_doc (cli.py 117-122) over the remaining
\* files_to_add: r.staged is temp_docs_to_upload, r.out what was printed.
RECURSIVE add_doc_loop(_, _, _)
add_doc_loop(files_to_add, r, F) ==
    IF files_to_add = <<>> THEN r
    ELSE LET file_path == Head(files_to_add)
             abs_path == abspath(file_path)
         IN  add_doc_loop(Tail(files_to_add),
                 IF is_existing_file(file_path, F)
                 THEN IF ~InSeq(abs_path, r.staged)
                      THEN [staged |-> Append(r.staged, abs_path),
                            out |-> Append(r.out, "Staged: " \o abs_path)]
                      ELSE [staged |-> r.staged,
                            out |-> Append(r.out, "Skipped (already staged): " \o abs_path)]
                 ELSE [staged |-> r.staged,
                       out |-> Append(r.out, "Error: File not found: " \o file_path)],
                 F)

handle_add_doc(S, args_str, F) ==
    IF S.mode # "temporary"
    THEN Result(S, <<"This command is only available in 'temporary' mode.">>, <<>>, <<>>, "none")
    ELSE IF args_str = ""
    THEN Result(S, <<"Usage: add_doc /path/to/file.pdf ...">>, <<>>, <<>>, "none")
    ELSE LET sp == shlex_split(args_str)
         IN  IF ~sp.ok THEN Result(S, <<>>, <<>>, <<>>, "ValueError")
             ELSE LET r == add_doc_loop(sp.tokens,
                                        [staged |-> S.temp_docs_to_upload, out |-> <<>>], F)
                  IN  [Result([S EXCEPT !.temp_docs_to_upload = r.staged], r.out, <<>>, <<>>, "none")
                          EXCEPT !.looked = sp.tokens # <<>>]

handle_show_docs(S) ==
    LET title == IF S.mode = "persistent" THEN "Document Context Set for Persistent Query"
                 ELSE "Local Documents Staged for Temporary Query"
        docs_list == IF S.mode = "persistent" THEN S.persistent_docs_context
                     ELSE S.temp_docs_to_upload
    IN  IF docs_list = <<>>
        THEN Result(S, <<"No documents are currently set for this mode.">>, <<>>, <<>>, "none")
        ELSE Result(S, <<title>> \o docs_list, <<>>, <<>>, "none")

handle_clear_docs(S) ==
    Result(IF S.mode = "persistent" THEN [S EXCEPT !.persistent_docs_context = <<>>]
           ELSE [S EXCEPT !.temp_docs_to_upload = <<>>],
           <<"Current document context has been cleared.">>, <<>>, <<>>, "none")

display_structured_response(data) == <<"AI Decision Engine Response">>

\* The if/else on the status that both query protocols share (cli.py 159-160, 177-178).
query_report(resp) ==
    IF resp.status = 200 THEN display_structured_response(resp)
    ELSE <<"Error: " \o ToString(resp.status) \o " - " \o json_get_detail(resp, "Unknown error")>>

\* What both query protocols do once requests.post has returned or raised:
\* the status branch inside the try block, where response.json() may raise,
\* and the except clause (cli.py 159-161, 177-179).
query_outcome(S, resp, reqs, hs) ==
    IF ~resp.got THEN Result(S, <<"Connection Error.">>, reqs, hs, "none")
    ELSE IF resp.json_raises = "RequestException"
    THEN Result(S, <<"Connection Error.">>, reqs, hs, "none")
    ELSE IF resp.json_raises = "ValueError" THEN Result(S, <<>>, reqs, hs, "ValueError")
    ELSE Result(S, query_report(resp), reqs, hs, "none")

\* Mutant: the persistent query sends an empty scope instead of the context.
handle_persistent_query_no_scope(S, query, resp) ==
    LET reqs == <<Req("POST", PERSISTENT_ENDPOINT, S.token, query, <<>>, <<>>)>>
    IN  query_outcome(S, resp, reqs, <<>>)

handle_persistent_query(S, query, resp) ==
    LET reqs == <<Req("POST", PERSISTENT_ENDPOINT, S.token, query,
                      S.persistent_docs_context, <<>>)>>
    IN  query_outcome(S, resp, reqs, <<>>)

\* Number of staged paths that open() opens before the first one that is
\* not an existing file (all of them when every open succeeds).
RECURSIVE opened_count(_, _)
opened_count(paths, F) ==
    IF paths = <<>> \/ Head(paths) \notin F THEN 0
    ELSE 1 + opened_count(Tail(paths), F)

\* The finally clause (cli.py 180-181): every handle of file_handles is
\* closed once per occurrence in the list.  opened are the paths open()
\* returned a handle for, in order; file_handles the handle numbers appended.
close_handles(opened, file_handles) ==
    [h \in 1..Len(opened) |->
        [path |-> opened[h],
         closed |-> Cardinality({j \in 1..Len(file_handles) : file_handles[j] = h})]]

\* Mutant: the handles are closed after the try statement instead of in a
\* finally clause, so none is closed when a failed open leaves the handler.
handle_temporary_query_no_finally(S, query, resp, F) ==
    IF S.temp_docs_to_upload = <<>>
    THEN Result(S, <<"No documents staged. Use 'add_doc' first.">>, <<>>, <<>>, "none")
    ELSE LET paths == S.temp_docs_to_upload
             n == opened_count(paths, F)
             opened == SubSeq(paths, 1, n)
             file_handles == [h \in 1..n |-> h]
             hs == close_handles(opened, file_handles)
             reqs == <<Req("POST", DYNAMIC_ENDPOINT, S.token, query, opened,
                           [i \in 1..n |-> basename(opened[i])])>>
             R == IF n < Len(paths)
                  THEN Result(S, <<>>, <<>>, close_handles(opened, <<>>), "FileNotFoundError")
                  ELSE query_outcome(S, resp, reqs, hs)
         IN  [R EXCEPT !.looked = TRUE]

\* Mutant: the handler without its test for an empty staged list.
handle_temporary_query_no_empty_check(S, query, resp, F) ==
    LET paths == S.temp_docs_to_upload
        n == opened_count(paths, F)
        opened == SubSeq(paths, 1, n)
        file_handles == [h \in 1..n |-> h]
        hs == close_handles(opened, file_handles)
        reqs == <<Req("POST", DYNAMIC_ENDPOINT, S.token, query, opened,
                      [i \in 1..n |-> basename(opened[i])])>>
        R == IF n < Len(paths) THEN Result(S, <<>>, <<>>, hs, "FileNotFoundError")
             ELSE query_outcome(S, resp, reqs, hs)
    IN  [R EXCEPT !.looked = TRUE]

\* Mutant: the staged files are for one query only and are dropped once
\* they were uploaded.
handle_temporary_query_one_time(S, query, resp, F) ==
    IF S.temp_docs_to_upload = <<>>
    THEN Result(S, <<"No documents staged. Use 'add_doc' first.">>, <<>>, <<>>, "none")
    ELSE LET paths == S.temp_docs_to_upload
             n == opened_count(paths, F)
             opened == SubSeq(paths, 1, n)
             file_handles == [h \in 1..n |-> h]
             hs == close_handles(opened, file_handles)
             reqs == <<Req("POST", DYNAMIC_ENDPOINT, S.token, query, opened,
                           [i \in 1..n |-> basename(opened[i])])>>
             R == IF n < Len(paths) THEN Result(S, <<>>, <<>>, hs, "FileNotFoundError")
                  ELSE query_outcome(IF resp.got /\ resp.status = 200
                                     THEN [S EXCEPT !.temp_docs_to_upload = <<>>] ELSE S,
                                     resp, reqs, hs)
         IN  [R EXCEPT !.looked = TRUE]

handle_temporary_query(S, query, resp, F) ==
    IF S.temp_docs_to_upload = <<>>
    THEN Result(S, <<"No documents staged. Use 'add_doc' first.">>, <<>>, <<>>, "none")
    ELSE LET paths == S.temp_docs_to_upload
             n == opened_count(paths, F)
             opened == SubSeq(paths, 1, n)
             file_handles == [h \in 1..n |-> h]
             hs == close_handles(opened, file_handles)
             reqs == <<Req("POST", DYNAMIC_ENDPOINT, S.token, query, opened,
                           [i \in 1..n |-> basename(opened[i])])>>
             R == IF n < Len(paths) THEN Result(S, <<>>, <<>>, hs, "FileNotFoundError")
                  ELSE query_outcome(S, resp, reqs, hs)
         IN  [R EXCEPT !.looked = TRUE]

\* Mutant: the router without its authentication check.
handle_query_no_auth_check(S, query_text, resp, F) ==
    IF S.mode = "persistent" THEN handle_persistent_query(S, query_text, resp)
    ELSE handle_temporary_query(S, query_text, resp, F)

handle_query(S, query_text, resp, F) ==
    IF Falsy(S.token)
    THEN Result(S, <<"You must be logged in to run a query.">>, <<>>, <<>>, "none")
    ELSE IF S.mode = "persistent" THEN handle_persistent_query(S, query_text, resp)
    ELSE handle_temporary_query(S, query_text, resp, F)

\* Mutant: exit() returns to the loop instead of raising.
handle_exit_returns(S) == Result(S, <<"Exiting...">>, <<>>, <<>>, "none")

\* exit(): raises SystemExit.
handle_exit(S) == Result(S, <<>>, <<>>, <<>>, "SystemExit")

COMMANDS == {"help", "mode", "register", "login", "logout", "list_docs", "set_docs",
             "add_doc", "show_docs", "clear_docs", "exit", "quit"}

-----------------------------------------------------------------------------
(* The inputs *)

FileName(i) == Ch("abcdefgh", i)
Files == {CWD \o "/" \o FileName(i) : i \in 1..NumFiles}

\* The lines typed at the prompt.  The add_doc lines name one file, one
\* file by two spellings, and two files (the second by its absolute path).
InputLines ==
    {"", "  ", "help", "HELP me", "mode persistent", "mode temporary", "MODE Temporary",
     "mode  PERSISTENT ", "mode bogus", "mode", "login", "register", "logout", "list_docs",
     "set_docs", "set_docs *", "set_docs  * ", "set_docs x.pdf", "set_docs y.pdf x.pdf", "set_docs \"a b.pdf\" c.pdf",
     "set_docs \"a b.pdf", "add_doc", "add_doc 'a", "add_doc . a", "show_docs", "clear_docs", "exit", "QUIT",
     "What is the termination clause?", "mode\ttemporary"}
    \cup {"add_doc " \o FileName(i) : i \in 1..NumFiles}
    \cup {"add_doc " \o FileName(i) \o " ./" \o FileName(i) : i \in 1..NumFiles}
    \cup {"add_doc " \o FileName(i) \o " " \o CWD \o "/" \o FileName((i % NumFiles) + 1) :
             i \in 1..NumFiles}

Range(seq) == {seq[i] : i \in 1..Len(seq)}

-----------------------------------------------------------------------------
(* main() (cli.py 210-222) *)

\* command and args of a stripped line (cli.py 216-218).
command_of(line) == lower(split1(line)[1])
args_of(line) == IF Len(split1(line)) > 1 THEN split1(line)[2] ELSE ""

\* The exceptions main() catches: it prints Exiting... and leaves the loop.
Caught == {"KeyboardInterrupt", "EOFError", "SystemExit"}

\* The end of an iteration that called handler `name` with `args`, R being
\* what the call did, F the file system it saw and resp the backend's answer.
Iteration(line, name, args, R, F, resp) ==
    /\ prev' = APP_STATE
    /\ APP_STATE' = R.state
    /\ user_input' = line
    /\ handler' = name
    /\ arg' = args
    /\ http' = R.http
    /\ handles' = R.handles
    /\ fs' = IF R.looked THEN F ELSE fs
    /\ response' = IF R.http = <<>> THEN NoRequest ELSE resp
    /\ pc' = IF R.exc = "none" THEN "awaiting"
             ELSE IF R.exc \in Caught THEN "terminated" ELSE "crashed"
    /\ console_out' = IF R.exc = "none" THEN R.out
                      ELSE IF R.exc \in Caught THEN Append(R.out, "Exiting...")
                      ELSE Append(R.out, "Traceback (most recent call last): " \o R.exc)

\* What main() makes of each line that can be typed: the stripped line, the
\* command and the args (cli.py 214-218).
Parsed ==
    [raw \in InputLines |->
        [line |-> strip(raw), command |-> command_of(strip(raw)), args |-> args_of(strip(raw))]]

\* The files of the universe that the words of an argument string name.
Named ==
    [raw \in InputLines |->
        {abspath(t) : t \in Range(shlex_split(Parsed[raw].args).tokens)} \cap Files]

\* The line read is a registered command `name`.
Reads(raw, name) ==
    /\ pc = "awaiting"
    /\ Parsed[raw].line # ""
    /\ Parsed[raw].command = name

Call(raw, R, F, resp) ==
    Iteration(Parsed[raw].line, Parsed[raw].command, Parsed[raw].args, R, F, resp)

Init ==
    /\ APP_STATE = [token |-> None, user_email |-> None, mode |-> "persistent",
                    persistent_docs_context |-> <<>>, temp_docs_to_upload |-> <<>>]
    /\ prev = APP_STATE
    /\ pc = "awaiting"
    /\ user_input = ""
    /\ handler = ""
    /\ arg = ""
    /\ console_out = <<"Welcome to the ClauseCompass Decision Engine CLI! Type 'help' for commands.">>
    /\ http = <<>>
    /\ handles = <<>>
    /\ fs = {}
    /\ response = NoRequest

Blank ==
    /\ pc = "awaiting"
    /\ \E raw \in InputLines :
        /\ Parsed[raw].line = ""
        /\ Iteration("", "", "", Result(APP_STATE, <<>>, <<>>, <<>>, "none"), fs, NoRequest)

Interrupt ==
    /\ pc = "awaiting"
    /\ \E e \in {"KeyboardInterrupt", "EOFError"} :
        Iteration("", "", "", Result(APP_STATE, <<>>, <<>>, <<>>, e), fs, NoRequest)

Help == \E raw \in InputLines : Reads(raw, "help") /\ Call(raw, handle_help(APP_STATE), fs, NoRequest)

ModeSwitch ==
    \E raw \in InputLines :
        Reads(raw, "mode") /\ Call(raw, handle_mode_switch(APP_STATE, Parsed[raw].args), fs, NoRequest)

Login ==
    \E raw \in InputLines : \E email \in Emails \cup {EOF} : \E resp \in LoginResponses :
        Reads(raw, "login") /\ Call(raw, handle_login(APP_STATE, email, resp), fs, resp)

Register ==
    \E raw \in InputLines : \E email \in Emails \cup {EOF} : \E resp \in RegisterResponses :
        Reads(raw, "register") /\ Call(raw, handle_register(APP_STATE, email, resp), fs, resp)

Logout == \E raw \in InputLines : Reads(raw, "logout") /\ Call(raw, handle_logout(APP_STATE), fs, NoRequest)

ListDocs ==
    \E raw \in InputLines : \E resp \in ListResponses :
        Reads(raw, "list_docs") /\ Call(raw, handle_list_docs(APP_STATE, resp), fs, resp)

SetDocs ==
    \E raw \in InputLines :
        Reads(raw, "set_docs") /\ Call(raw, handle_set_docs(APP_STATE, Parsed[raw].args), fs, NoRequest)

AddDoc ==
    \E raw \in InputLines : \E F \in SUBSET Named[raw] :
        Reads(raw, "add_doc") /\ Call(raw, handle_add_doc(APP_STATE, Parsed[raw].args, F), F, NoRequest)

ShowDocs ==
    \E raw \in InputLines : Reads(raw, "show_docs") /\ Call(raw, handle_show_docs(APP_STATE), fs, NoRequest)

ClearDocs ==
    \E raw \in InputLines : Reads(raw, "clear_docs") /\ Call(raw, handle_clear_docs(APP_STATE), fs, NoRequest)

Exit ==
    \E raw \in InputLines :
        (Reads(raw, "exit") \/ Reads(raw, "quit")) /\ Call(raw, handle_exit(APP_STATE), fs, NoRequest)

Query ==
    \E raw \in InputLines : \E resp \in QueryResponses :
    \E F \in SUBSET Range(APP_STATE.temp_docs_to_upload) :
        /\ pc = "awaiting"
        /\ Parsed[raw].line # ""
        /\ Parsed[raw].command \notin COMMANDS
        /\ Iteration(Parsed[raw].line, "query", Parsed[raw].line,
                     handle_query(APP_STATE, Parsed[raw].line, resp, F), F, resp)

Next ==
    \/ Blank
    \/ Interrupt
    \/ Help
    \/ ModeSwitch
    \/ Login
    \/ Register
    \/ Logout
    \/ ListDocs
    \/ SetDocs
    \/ AddDoc
    \/ ShowDocs
    \/ ClearDocs
    \/ Exit
    \/ Query

Spec == Init /\ [][Next]_vars

-----------------------------------------------------------------------------
(* Properties *)

NoDuplicates(seq) == \A i, j \in 1..Len(seq) : seq[i] = seq[j] => i = j

Last(seq) == seq[Len(seq)]

\* C1: after the mode command with a valid mode token, in any letter case
\* and also the token of the current mode, both document collections are
\* empty and the mode is the requested one, whatever the collections held.
C1_ModeSwitchClearsBoth ==
    (handler = "mode" /\ lower(strip(arg)) \in {"persistent", "temporary"})
        => /\ APP_STATE.mode = lower(strip(arg))
           /\ APP_STATE.persistent_docs_context = <<>>
           /\ APP_STATE.temp_docs_to_upload = <<>>
           /\ pc = "awaiting"

\* A switch to temporary, typed in mixed case, from temporary mode with documents staged.
C1_Witness ==
    /\ handler = "mode"
    /\ arg = "Temporary"
    /\ prev.mode = "temporary"
    /\ prev.temp_docs_to_upload # <<>>
    /\ APP_STATE.mode = "temporary"
    /\ APP_STATE.temp_docs_to_upload = <<>>

\* C2: a free-text line typed while no token is held issues no HTTP request,
\* prints the authentication-required error and leaves the session as it was.
C2_UnauthenticatedQueryNoCall ==
    (handler = "query" /\ Falsy(prev.token))
        => /\ http = <<>>
           /\ handles = <<>>
           /\ console_out = <<"You must be logged in to run a query.">>
           /\ APP_STATE = prev
           /\ pc = "awaiting"

\* A query typed in temporary mode with a document staged and nobody logged in.
C2_Witness ==
    /\ handler = "query"
    /\ Falsy(prev.token)
    /\ prev.mode = "temporary"
    /\ prev.temp_docs_to_upload # <<>>
    /\ http = <<>>

\* The request each protocol sends for the line typed, from the session as
\* it was when the line was read.
ExpectedPersistentRequest ==
    Req("POST", "/evaluate", prev.token, user_input, prev.persistent_docs_context, <<>>)

ExpectedUploadRequest ==
    Req("POST", "/evaluate-with-docs", prev.token, user_input, prev.temp_docs_to_upload,
        [i \in 1..Len(prev.temp_docs_to_upload) |-> basename(prev.temp_docs_to_upload[i])])

\* C3 as stated: every authenticated query in persistent mode sends exactly
\* one request to /evaluate with the current context, and every authenticated
\* query in temporary mode with a non-empty staged list sends exactly one
\* request to /evaluate-with-docs with the currently staged files.
C3_AsStated ==
    (handler = "query" /\ ~Falsy(prev.token))
        => /\ prev.mode = "persistent" => http = <<ExpectedPersistentRequest>>
           /\ (prev.mode = "temporary" /\ prev.temp_docs_to_upload # <<>>)
                => http = <<ExpectedUploadRequest>>

\* C3 (amended): the protocol is chosen from the mode at the moment of the
\* query.  A persistent query sends exactly one request to /evaluate with the
\* current context; a temporary query with a non-empty staged list sends
\* exactly one request to /evaluate-with-docs with the currently staged files
\* when every staged file opens, and no request at all when one does not.
C3_ProtocolFromCurrentMode ==
    (handler = "query" /\ ~Falsy(prev.token))
        => /\ prev.mode = "persistent" => http = <<ExpectedPersistentRequest>>
           /\ (prev.mode = "temporary" /\ prev.temp_docs_to_upload # <<>>)
                => http = IF Range(prev.temp_docs_to_upload) \subseteq fs
                          THEN <<ExpectedUploadRequest>> ELSE <<>>

\* An upload query carrying two staged files.
C3_Witness ==
    /\ handler = "query"
    /\ prev.mode = "temporary"
    /\ Len(prev.temp_docs_to_upload) = 2
    /\ http = <<ExpectedUploadRequest>>

\* A persistent query carrying a two-entry context.
C3_WitnessPersistent ==
    /\ handler = "query"
    /\ prev.mode = "persistent"
    /\ prev.persistent_docs_context = <<"a b.pdf", "c.pdf">>
    /\ http = <<ExpectedPersistentRequest>>

\* C4: nothing is fatal.  The loop never ends by an unhandled error, and it
\* ends only through exit, quit, a user interrupt or end-of-input, with the
\* shutdown message printed.
C4_NothingFatal ==
    /\ pc \in {"awaiting", "terminated"}
    /\ pc = "terminated" => /\ handler \in {"exit", "quit", "", "login", "register"}
                            /\ Last(console_out) = "Exiting..."

\* C5: every file handle opened by a temporary-mode query is closed exactly
\* once when control leaves the handler, on every exit path.
C5_HandlesClosedOnce ==
    /\ \A h \in 1..Len(handles) : handles[h].closed = 1
    /\ (handler = "query" /\ ~Falsy(prev.token) /\ prev.mode = "temporary")
         => /\ Len(handles) = opened_count(prev.temp_docs_to_upload, fs)
            /\ \A h \in 1..Len(handles) : handles[h].path = prev.temp_docs_to_upload[h]

\* The second of two staged files failed to open after the first was opened.
C5_Witness ==
    /\ handler = "query"
    /\ Len(prev.temp_docs_to_upload) = 2
    /\ prev.temp_docs_to_upload[2] \notin fs
    /\ Len(handles) = 1
    /\ handles[1].closed = 1
    /\ http = <<>>

\* C6: when a staged file fails to open at send time, no request is sent,
\* an error is reported for that query, only that query is aborted (the loop
\* awaits the next line) and the session is unchanged.
C6_OpenFailureAbortsOnlyTheQuery ==
    (/\ handler = "query"
     /\ ~Falsy(prev.token)
     /\ prev.mode = "temporary"
     /\ prev.temp_docs_to_upload # <<>>
     /\ ~(Range(prev.temp_docs_to_upload) \subseteq fs))
        => /\ http = <<>>
           /\ console_out # <<>>
           /\ pc = "awaiting"
           /\ APP_STATE = prev

ModeMismatch(m) == <<"This command is only available in '" \o m \o "' mode.">>

\* C7: set_docs and list_docs in temporary mode, and add_doc in persistent
\* mode, report the mode mismatch, change nothing and call nothing, for any
\* argument and any authentication state; show_docs and clear_docs work in
\* both modes on the collection of the current mode only.
C7_ModeScopedCommands ==
    /\ (handler \in {"set_docs", "list_docs"} /\ prev.mode = "temporary")
         => /\ console_out = ModeMismatch("persistent")
            /\ APP_STATE = prev /\ http = <<>> /\ pc = "awaiting"
    /\ (handler = "add_doc" /\ prev.mode = "persistent")
         => /\ console_out = ModeMismatch("temporary")
            /\ APP_STATE = prev /\ http = <<>> /\ pc = "awaiting"
    /\ handler = "show_docs"
         => /\ APP_STATE = prev /\ http = <<>> /\ pc = "awaiting"
            /\ LET docs == IF prev.mode = "persistent" THEN prev.persistent_docs_context
                           ELSE prev.temp_docs_to_upload
               IN  IF docs = <<>>
                   THEN console_out = <<"No documents are currently set for this mode.">>
                   ELSE Tail(console_out) = docs
    /\ handler = "clear_docs"
         => /\ http = <<>> /\ pc = "awaiting"
            /\ APP_STATE =
                 IF prev.mode = "persistent" THEN [prev EXCEPT !.persistent_docs_context = <<>>]
                 ELSE [prev EXCEPT !.temp_docs_to_upload = <<>>]

\* set_docs with an unbalanced quote, typed in temporary mode by a logged-in user.
C7_Witness ==
    /\ handler = "set_docs"
    /\ arg = "\"a b.pdf"
    /\ prev.mode = "temporary"
    /\ ~Falsy(prev.token)
    /\ prev.temp_docs_to_upload # <<>>
    /\ console_out = ModeMismatch("persistent")

\* C8: after logout, in either mode and logged in or not, the token and the
\* user identity are absent and both document collections are empty.
C8_LogoutResets ==
    handler = "logout"
        => /\ APP_STATE.token = None
           /\ APP_STATE.user_email = None
           /\ APP_STATE.persistent_docs_context = <<>>
           /\ APP_STATE.temp_docs_to_upload = <<>>
           /\ APP_STATE.mode = prev.mode
           /\ pc = "awaiting"

\* A logged-in user logs out in temporary mode with documents staged.
C8_Witness ==
    /\ handler = "logout"
    /\ prev.token # None
    /\ prev.mode = "temporary"
    /\ prev.temp_docs_to_upload # <<>>
    /\ APP_STATE.temp_docs_to_upload = <<>>

\* C9: the user identity is present if and only if the token is present.
C9_IdentityIffToken ==
    (APP_STATE.user_email # None) <=> (APP_STATE.token # None)

\* A second successful login, as another user, of a session that was logged in.
C9_Witness ==
    /\ handler = "login"
    /\ prev.token # None
    /\ APP_STATE.token # prev.token
    /\ APP_STATE.user_email # prev.user_email
    /\ APP_STATE.user_email # None

\* What a second add_doc with the same arguments prints: a duplicate skip
\* for every word that names an existing file, the error for the others.
SecondRunReports(args_str, F) ==
    LET words == shlex_split(args_str).tokens
    IN  [i \in 1..Len(words) |->
            IF is_existing_file(words[i], F)
            THEN "Skipped (already staged): " \o abspath(words[i])
            ELSE "Error: File not found: " \o words[i]]

\* C10: the staged list never holds the same absolute path twice, and
\* add_doc is idempotent: run again with the same arguments it leaves the
\* staged list as it is and reports every existing path as a duplicate.
C10_StagedNoDuplicatesIdempotent ==
    /\ NoDuplicates(APP_STATE.temp_docs_to_upload)
    /\ (handler = "add_doc" /\ prev.mode = "temporary" /\ arg # "" /\ pc = "awaiting")
         => LET again == handle_add_doc(APP_STATE, arg, fs)
            IN  /\ again.state = APP_STATE
                /\ again.out = SecondRunReports(arg, fs)

\* One call naming the same existing file by two spellings staged it once.
C10_Witness ==
    /\ handler = "add_doc"
    /\ arg = "a ./a"
    /\ fs = {"/w/a"}
    /\ prev.temp_docs_to_upload = <<>>
    /\ APP_STATE.temp_docs_to_upload = <<"/w/a">>
    /\ console_out = <<"Staged: /w/a", "Skipped (already staged): /w/a">>

\* The words of an add_doc argument and, of these, the ones that name an
\* existing regular file.
Words == shlex_split(arg).tokens
ValidWord(i) == is_existing_file(Words[i], fs)

\* The position of the first valid word that names the absolute path p.
FirstNaming(p) ==
    CHOOSE i \in 1..Len(Words) :
        /\ ValidWord(i) /\ abspath(Words[i]) = p
        /\ \A j \in 1..(i - 1) : ~(ValidWord(j) /\ abspath(Words[j]) = p)

\* C11: in temporary mode add_doc handles its paths in argument order; a
\* path that does not exist or is not a regular file gets its own error and
\* adds nothing, and every valid path not yet staged, before or after a bad
\* one, is appended: the staged list is the prior list followed by the new
\* valid paths in argument order.
C11_AddDocSkipsBadPaths ==
    (handler = "add_doc" /\ prev.mode = "temporary" /\ arg # "" /\ pc = "awaiting")
        => LET old == prev.temp_docs_to_upload
               staged == APP_STATE.temp_docs_to_upload
               new == SubSeq(staged, Len(old) + 1, Len(staged))
           IN  /\ Len(staged) >= Len(old)
               /\ SubSeq(staged, 1, Len(old)) = old
               /\ Range(new) = {abspath(Words[i]) : i \in {j \in 1..Len(Words) : ValidWord(j)}}
                                  \ Range(old)
               /\ NoDuplicates(new)
               /\ \A j, k \in 1..Len(new) : j < k => FirstNaming(new[j]) < FirstNaming(new[k])
               /\ Len(console_out) = Len(Words)
               /\ \A i \in 1..Len(Words) :
                    IF ValidWord(i)
                    THEN console_out[i] \in {"Staged: " \o abspath(Words[i]),
                                             "Skipped (already staged): " \o abspath(Words[i])}
                    ELSE console_out[i] = "Error: File not found: " \o Words[i]

\* A directory first, then a file that exists: the file is staged after the
\* one staged before.
C11_Witness ==
    /\ handler = "add_doc"
    /\ arg = ". a"
    /\ fs = {"/w/a"}
    /\ prev.temp_docs_to_upload = <<"/w/b">>
    /\ APP_STATE.temp_docs_to_upload = <<"/w/b", "/w/a">>
    /\ console_out = <<"Error: File not found: .", "Staged: /w/a">>

\* A missing file after a valid one in the same call.
C11_WitnessBadLast ==
    /\ handler = "add_doc"
    /\ arg = "a /w/b"
    /\ fs = {"/w/a"}
    /\ APP_STATE.temp_docs_to_upload = <<"/w/a">>
    /\ console_out = <<"Staged: /w/a", "Error: File not found: /w/b">>

\* C12: in persistent mode set_docs with an empty argument or `*` empties
\* the context; with any other argument (whose quotes are balanced, so that
\* it has shell-style tokens) it replaces the context by exactly those
\* tokens in the order typed, a quoted substring being one token:
\* `"a b.pdf" c.pdf` gives the two entries `a b.pdf` and `c.pdf`.
C12_SetDocsReplacesContext ==
    (handler = "set_docs" /\ prev.mode = "persistent")
        => /\ arg \in {"", "*"} => (APP_STATE.persistent_docs_context = <<>> /\ pc = "awaiting")
           /\ arg = "\"a b.pdf\" c.pdf"
                => APP_STATE.persistent_docs_context = <<"a b.pdf", "c.pdf">>
           /\ arg = "y.pdf x.pdf" => APP_STATE.persistent_docs_context = <<"y.pdf", "x.pdf">>
           /\ (arg # "" /\ strip(arg) # "*" /\ shlex_split(arg).ok)
                => /\ APP_STATE.persistent_docs_context = shlex_split(arg).tokens
                   /\ pc = "awaiting"
           /\ APP_STATE = [prev EXCEPT !.persistent_docs_context =
                                           APP_STATE.persistent_docs_context]

\* The quoted example replaces a context of two other entries.
C12_Witness ==
    /\ handler = "set_docs"
    /\ arg = "\"a b.pdf\" c.pdf"
    /\ prev.persistent_docs_context = <<"y.pdf", "x.pdf">>
    /\ APP_STATE.persistent_docs_context = <<"a b.pdf", "c.pdf">>

\* `*` empties a context that held entries.
C12_WitnessStar ==
    /\ handler = "set_docs"
    /\ arg = "*"
    /\ prev.persistent_docs_context # <<>>
    /\ APP_STATE.persistent_docs_context = <<>>

\* C13: a free-text line typed by a logged-in user in temporary mode with
\* nothing staged opens no file, sends no request, prints the
\* no-documents-staged error and leaves the session as it was.
C13_EmptyStagedQueryNoCall ==
    (/\ handler = "query"
     /\ ~Falsy(prev.token)
     /\ prev.mode = "temporary"
     /\ prev.temp_docs_to_upload = <<>>)
        => /\ http = <<>>
           /\ handles = <<>>
           /\ response = NoRequest
           /\ console_out = <<"No documents staged. Use 'add_doc' first.">>
           /\ APP_STATE = prev
           /\ pc = "awaiting"

\* Such a query, made by a logged-in user.
C13_Witness ==
    /\ handler = "query"
    /\ prev.token \in Tokens
    /\ prev.mode = "temporary"
    /\ prev.temp_docs_to_upload = <<>>
    /\ console_out = <<"No documents staged. Use 'add_doc' first.">>

\* C14: for both query protocols, a received response with a non-200 status
\* is reported in the application-error form with its status code and the
\* server's detail (or "Unknown error"), e.g. "Error: 403 - expired token",
\* and "Connection Error." is reported only when no response was obtained.
C14_ErrorsNotConfused ==
    (handler = "query" /\ http # <<>>)
        => /\ (response.got /\ response.status # 200)
                => /\ pc = "awaiting"
                   /\ console_out =
                        <<"Error: " \o ToString(response.status) \o " - "
                            \o (IF "detail" \in response.keys THEN response.detail
                                ELSE "Unknown error")>>
           /\ (response.got /\ response.status = 403 /\ response.detail = "expired token")
                => console_out = <<"Error: 403 - expired token">>
           /\ console_out = <<"Connection Error.">> => ~response.got

\* C15: `mode` with an argument that is neither 'persistent' nor
\* 'temporary', compared without regard to case (the empty argument
\* included), leaves the mode, the token, the user identity and both
\* collections as they were and reports the invalid-mode error.
C15_InvalidModeKeepsState ==
    (/\ handler = "mode"
     /\ \/ arg \in {"", "bogus"}
        \/ lower(strip(arg)) \notin {"persistent", "temporary"})
        => /\ APP_STATE = prev
           /\ console_out = <<"Invalid mode. Use 'persistent' or 'temporary'.">>
           /\ http = <<>>
           /\ pc = "awaiting"

\* `mode bogus` typed by a logged-in user in temporary mode with a staged file.
C15_Witness ==
    /\ handler = "mode"
    /\ arg = "bogus"
    /\ prev.mode = "temporary"
    /\ prev.token \in Tokens
    /\ prev.temp_docs_to_upload # <<>>
    /\ APP_STATE = prev

\* `mode` with no argument, in persistent mode with a selected context.
C15_WitnessEmpty ==
    /\ handler = "mode"
    /\ arg = ""
    /\ prev.mode = "persistent"
    /\ prev.persistent_docs_context # <<>>
    /\ APP_STATE.persistent_docs_context = prev.persistent_docs_context

\* The index of the first whitespace character of a line at or after i,
\* or Len(line) + 1 when there is none.
RECURSIVE FirstSpaceFrom(_, _)
FirstSpaceFrom(line, i) ==
    IF i > Len(line) THEN i
    ELSE IF IsSpace(Ch(line, i)) THEN i
    ELSE FirstSpaceFrom(line, i + 1)

\* The first whitespace-delimited token of a line and what follows it.
FirstToken(line) == SubSeq(line, 1, FirstSpaceFrom(line, 1) - 1)
Remainder(line) == SubSeq(line, FirstSpaceFrom(line, 1) + 1, Len(line))

\* Token and remainder of every line the loop can have read.
Dispatch ==
    [l \in {Parsed[raw].line : raw \in InputLines} |->
        [token |-> lower(FirstToken(l)), rest |-> strip(Remainder(l))]]

\* C16: a blank line calls no handler and changes nothing; a line whose
\* first whitespace-delimited token, lowercased, is a registered command
\* calls that command's handler with the remainder of the line; every other
\* line goes to the query router with the whole line as the query text.
\* The line is taken as read, without its surrounding whitespace.
C16_DispatchRule ==
    /\ handler = "" => (APP_STATE = prev /\ http = <<>>)
    /\ user_input # ""
        => IF Dispatch[user_input].token \in COMMANDS
           THEN /\ handler = Dispatch[user_input].token
                /\ strip(arg) = Dispatch[user_input].rest
           ELSE /\ handler = "query"
                /\ arg = user_input

\* What the state shows of a line that ended the loop through the exit path.
C17_ExitedNow ==
    /\ handler \in {"exit", "quit"}
         => /\ pc = "terminated"
            /\ console_out = <<"Exiting...">>
            /\ http = <<>>
            /\ APP_STATE = prev
    /\ pc = "terminated"
         => /\ Last(console_out) = "Exiting..."
            /\ http = <<>>
            /\ APP_STATE = prev

\* C17: `exit`, `quit`, a user interrupt and end-of-input each reach the
\* terminated state in the step in which they happen, without a request and
\* without a change of the session; from the terminated state on, no line
\* is read, no handler runs, no request is issued and the session never
\* changes.
C17_ExitTerminates ==
    /\ []C17_ExitedNow
    /\ [][(handler' \in {"exit", "quit"} \/ Interrupt)
              => (pc' = "terminated" /\ APP_STATE' = APP_STATE)]_vars
    /\ [][pc = "terminated" => UNCHANGED vars]_vars

\* `QUIT` typed by a logged-in user with a document staged.
C17_Witness ==
    /\ pc = "terminated"
    /\ handler = "quit"
    /\ prev.token \in Tokens
    /\ prev.temp_docs_to_upload # <<>>

\* End of input at the e-mail prompt of `login`.
C17_WitnessEOF ==
    /\ pc = "terminated"
    /\ handler = "login"
    /\ Last(console_out) = "Exiting..."

\* C18: in every reachable state the collection of the mode that is not
\* current is empty: in persistent mode nothing is staged, in temporary mode
\* no context is selected, and the two are never non-empty together.
C18_OtherCollectionEmpty ==
    /\ APP_STATE.mode \in {"persistent", "temporary"}
    /\ APP_STATE.mode = "persistent" => APP_STATE.temp_docs_to_upload = <<>>
    /\ APP_STATE.mode = "temporary" => APP_STATE.persistent_docs_context = <<>>
    /\ APP_STATE.persistent_docs_context = <<>> \/ APP_STATE.temp_docs_to_upload = <<>>

\* A file staged in temporary mode, entered from persistent mode with a
\* context selected: add_doc after the switch.
C18_Witness ==
    /\ handler = "add_doc"
    /\ APP_STATE.mode = "temporary"
    /\ APP_STATE.temp_docs_to_upload # <<>>
    /\ APP_STATE.persistent_docs_context = <<>>
    /\ prev.temp_docs_to_upload = <<>>

\* The switch away from persistent mode with a context selected.
C18_WitnessSwitch ==
    /\ handler = "mode"
    /\ prev.mode = "persistent"
    /\ prev.persistent_docs_context # <<>>
    /\ APP_STATE.mode = "temporary"
    /\ APP_STATE.persistent_docs_context = <<>>

\* The session after a free-text line is the session before it, whatever
\* became of the query.
C19_QueryFrame ==
    handler = "query"
        => /\ APP_STATE = prev
           /\ APP_STATE.token = prev.token
           /\ APP_STATE.user_email = prev.user_email
           /\ APP_STATE.mode = prev.mode
           /\ APP_STATE.persistent_docs_context = prev.persistent_docs_context
           /\ APP_STATE.temp_docs_to_upload = prev.temp_docs_to_upload

C19_WitnessRejected ==
    /\ handler = "query"
    /\ prev.mode = "persistent"
    /\ response.got /\ response.status = 403
    /\ APP_STATE.token \in Tokens

\* C20: a login that does not succeed (non-200 response or no response)
\* leaves the token and the user identity as they were; only a 200 response
\* replaces them, both together, by the token of the response and the e-mail
\* that was typed; login never changes the mode or either collection.
C20_LoginFailureKeepsIdentity ==
    handler = "login"
        => /\ APP_STATE.mode = prev.mode
           /\ APP_STATE.persistent_docs_context = prev.persistent_docs_context
           /\ APP_STATE.temp_docs_to_upload = prev.temp_docs_to_upload
           /\ (~response.got \/ response.status # 200) => APP_STATE = prev
           /\ (APP_STATE.token # prev.token \/ APP_STATE.user_email # prev.user_email)
                => /\ response.got /\ response.status = 200
                   /\ APP_STATE.token = response.access_token
                   /\ APP_STATE.user_email = http[1].text
           /\ (response.got /\ response.status = 200 /\ pc = "awaiting")
                => /\ APP_STATE.token = response.access_token
                   /\ APP_STATE.user_email = http[1].text
                   /\ console_out = <<"Login successful.">>

\* A logged-in user whose new login is rejected with 403.
C20_Witness ==
    /\ handler = "login"
    /\ prev.token \in Tokens
    /\ response.got /\ response.status = 403
    /\ APP_STATE = prev
    /\ console_out = <<"Login failed: expired token">>

\* A logged-in user whose new login gets no response.
C20_WitnessTransport ==
    /\ handler = "login"
    /\ prev.token \in Tokens
    /\ http # <<>>
    /\ ~response.got
    /\ APP_STATE.token = prev.token
    /\ APP_STATE.user_email = prev.user_email

====
